---------------------------- MODULE Spec2Model ----------------------------
(***************************************************************************)
(* Model of the processing coordinator of the VoiceCapture dictation tool  *)
(* (src/src/main.py, class App) together with the collaborators its state  *)
(* depends on: the audio recorder (src/src/audio/recorder.py) and the      *)
(* recovery store (src/src/utils/recovery.py).                             *)
(*                                                                         *)
(* Threads of the program and the actions that model them:                 *)
(*   - the hotkey listener thread runs the handlers start_recording,       *)
(*     stop_recording, cancel_recording and convert_to_idea, one after     *)
(*     the other;                                                          *)
(*   - the recorder thread runs AudioRecorder._record_loop and, at its     *)
(*     end, the completion callback on_finished;                           *)
(*   - the Qt thread runs _retry_processing;                               *)
(*   - the replay thread runs _check_recovery_files.process_recovery;      *)
(*   - one thread per pipeline invocation runs App._process_audio; the     *)
(*     record runs[r] holds its arguments, its position and its locals.    *)
(***************************************************************************)
EXTENDS Integers, Sequences, FiniteSets, TLC

(* ------------------------------ bounds -------------------------------- *)

\* number of _process_audio invocations that may be pending at the same time
MaxRuns == 2

\* number of audio buffers that may exist (recovered at startup or recorded)
MaxBuf == 1

\* number of recovery files a previous process may have left behind
MaxPrior == 1

\* length of the texts handed to _simple_cleanup, and of those handed to
\* process under every configuration
MaxLen == 3
MaxProcLen == 1

\* number of recovery files found at startup when the replay is looked at
\* on its own
MaxReplay == 2

\* number of times the settings dialog is accepted when the recognizer cache
\* is looked at on its own
MaxUpdates == 1

\* number of frames of the buffers handed to speed_up_audio, and the step
\* between two of the numbers tried
MaxFrames == 2000
FrameStep == 100

(* --------------------------- program constants ------------------------ *)

MAX_ATTEMPTS == 5

\* Python's None for a text or a name, for a buffer or a recovery path (these
\* are numbered from 1), and for an error message
None == "None"
NoBuf == 0
NoError == "None"

\* all_backends of _process_audio: the canonical order of the known backends
all_backends == <<"groq", "openai">>

\* the values settings.recognition.backend can hold (create_recognizer
\* accepts "local" as well, the cascade does not know it)
BackendSettings == {"groq", "openai", "local"}

\* texts a successful transcribe may return ("" is a valid, non-None text)
Texts == {"ok", ""}

\* str(exc) of the RuntimeError a failed transcribe of backend b raises: the
\* messages of groq_api.py and openai_api.py all start with the backend name
ErrMsg(b) == b \o "_error"

\* msg of the cascade-exhausted branch and the generic message of the outer
\* exception handler of _process_audio
MSG_CONNECTION == "connection_error"
MSG_POSTPROCESS == "unknown_postprocess_error"

\* the timeout argument of message_shown.emit: 0 keeps the message on screen,
\* the message of the outer handler goes away after 3000 ms; NoTimeout: no
\* message emitted
KEEP_VISIBLE == 0
POSTPROCESS_TIMEOUT_MS == 3000
NoTimeout == -1

Runs == 1..MaxRuns
Buffers == 1..MaxBuf

VARIABLES
    is_recording,     \* App._is_recording
    is_idea,          \* App._is_idea
    last_audio_data,  \* App._last_audio_data: a buffer or NoBuf
    processing_lock,  \* App._processing_lock: 0 = free, r = held by run r
    hk_pc,            \* hotkey thread: "idle", or "starting" inside start_recording
    rec,              \* AudioRecorder: thread alive, events, frames captured
    next_buf,         \* identity of the next buffer to be created
    files,            \* recovery files on disk (a file is named by its buffer)
    replay_files,     \* files found by _check_recovery_files at startup, oldest first
    replay_idx,       \* position of the replay thread in replay_files
    runs,             \* the pipeline invocations
    latest_buf,       \* history: buffer of the last run to enter the critical
                      \* section, NoBuf once a start_recording was accepted since
    latest_failed,    \* history: that run has ended in cascade exhaustion and
                      \* no start_recording was accepted since
    pp_text,          \* the text handed to the TextPostprocessor
    pp_config,        \* TextPostprocessor.config
    pp_out,           \* what the call of the TextPostprocessor has returned
    settings,         \* App.settings.recognition: the configuration object
    recognizers,      \* App._recognizers: the dict the attribute refers to
    recognizer,       \* App.recognizer
    dicts,            \* the dict objects App._recognizers has referred to
    casc,             \* frame of the thread that runs the backend cascade
    dlg,              \* frame of open_settings_dialog (UI thread)
    sa_audio,         \* the AudioData handed to speed_up_audio
    sa_factor,        \* its argument factor, in tenths
    sa_out            \* what speed_up_audio has returned

\* the variables of the coordinator and those of the postprocessor on its own
cvars == <<is_recording, is_idea, last_audio_data, processing_lock, hk_pc, rec,
           next_buf, files, replay_files, replay_idx, runs, latest_buf,
           latest_failed>>
pvars == <<pp_text, pp_config, pp_out>>
\* the variables of the recognizer cache on its own
gvars == <<settings, recognizers, recognizer, dicts, casc, dlg>>
\* the variables of speed_up_audio on its own
avars == <<sa_audio, sa_factor, sa_out>>
vars == <<cvars, pvars, gvars, avars>>

(* ------------------------- pipeline invocations ----------------------- *)

\* an unused slot of runs, and the locals of _process_audio before the
\* cascade. tries and round_seq are history: the number of transcribe calls
\* made so far and the backends called so far in the current round
NoRun ==
    [pc |-> "none", kind |-> None, audio |-> NoBuf, is_idea |-> FALSE,
     recovery_path |-> NoBuf, prim |-> None, ordered_backends |-> <<>>,
     attempt |-> 0, pos |-> 1, tries |-> 0, round_seq |-> <<>>,
     raw_text |-> None, used_backend |-> None, last_error |-> NoError,
     processed_text |-> None, copied |-> None,
     exc |-> "none", state |-> None, msg |-> None, msg_timeout |-> NoTimeout,
     retry_shown |-> FALSE, outcome |-> "none",
     cleanup |-> "none", retry_of |-> NoBuf]

\* threading.Thread(target=self._process_audio, args=(audio, is_idea, path)):
\* the new invocation waits for the processing lock
NewRun(kind, audio, idea, path) ==
    [NoRun EXCEPT !.pc = "wait", !.kind = kind, !.audio = audio,
                  !.is_idea = idea, !.recovery_path = path]

FreeSlots == {r \in Runs : runs[r].pc = "none"}

\* slots are handed out in order
FreeSlot == CHOOSE r \in FreeSlots : \A q \in FreeSlots : r <= q

StartThread(kind, audio, idea, path) ==
    /\ FreeSlots # {}
    /\ runs' = [runs EXCEPT ![FreeSlot] = NewRun(kind, audio, idea, path)]

(* ------------------------------ recorder ------------------------------ *)

\* on_finished is AudioRecorder._on_finished: None, "own" for the callback
\* handed over by the start call that started the capture thread, "later" for
\* the callback of a later start call
RecorderIdle ==
    [alive |-> FALSE, stop_event |-> FALSE, cancel_event |-> FALSE,
     frames |-> FALSE, on_finished |-> None]

\* variant of RecorderStart: the callback is stored before the test of the
\* thread (lines 40-42 swapped)
RecorderStart_CallbackFirst(rc) ==
    IF rc.alive THEN [rc EXCEPT !.on_finished = "later"]
    ELSE [alive |-> TRUE, stop_event |-> FALSE, cancel_event |-> FALSE,
          frames |-> FALSE, on_finished |-> "own"]

\* AudioRecorder.start: nothing if the previous thread is alive, else the
\* events are cleared and a new _record_loop thread starts
RecorderStart(rc) ==
    IF rc.alive THEN rc
    ELSE [alive |-> TRUE, stop_event |-> FALSE, cancel_event |-> FALSE,
          frames |-> FALSE, on_finished |-> "own"]

\* the value of AudioRecorder.start(...) as start_recording tests it: the
\* method is declared "-> None" and returns None on both paths, so
\* "not self.audio_recorder.start(...)" is always true
RecorderStartResult(rc) == FALSE

\* AudioRecorder.stop and AudioRecorder.cancel
RecorderStop(rc) == [rc EXCEPT !.stop_event = TRUE]
RecorderCancel(rc) == [rc EXCEPT !.cancel_event = TRUE, !.stop_event = TRUE]

(* ---------------------------- postprocessor --------------------------- *)

\* A text is a sequence of characters. \s of the regular expressions and
\* str.strip(); the punctuation class [,.!?;:]
Whitespace == {" ", "\t", "\n"}
Punctuation == {",", ".", "!", "?", ";", ":"}

\* the characters the enumerated texts are made of
Alphabet == {" ", "a", ",", "[", "]"}

TextsUpTo(n) == UNION {[1..k -> Alphabet] : k \in 0..n}

\* a raw text with runs of spaces, a space before a comma and an artifact tag
\* between spaces, and the text without them
NoisyText ==
    <<" ", "h", "e", "l", "l", "o", " ", " ", " ", "w", "o", "r", "l",
      "d", " ", ",", "t", "h", "i", "s", " ", "i", "s", " ", " ", "[",
      "n", "o", "i", "s", "e", "]", " ", "a", " ", "t", "e", "s", "t",
      " ">>

TidyText ==
    <<"h", "e", "l", "l", "o", " ", "w", "o", "r", "l", "d", ",", " ",
      "t", "h", "i", "s", " ", "i", "s", " ", "a", " ", "t", "e", "s",
      "t">>

SampleTexts == {NoisyText, <<"a", " ", "[", "a", "]", " ", "a">>}

RECURSIVE LStrip(_)
LStrip(s) ==
    IF s # <<>> /\ Head(s) \in Whitespace THEN LStrip(Tail(s)) ELSE s

RECURSIVE RStrip(_)
RStrip(s) ==
    IF s # <<>> /\ s[Len(s)] \in Whitespace
    THEN RStrip(SubSeq(s, 1, Len(s) - 1))
    ELSE s

\* str.strip()
Strip(s) == RStrip(LStrip(s))

\* re.sub(r"\s+", " ", text): every run of whitespace becomes one space
RECURSIVE CollapseSpaces(_)
CollapseSpaces(s) ==
    IF s = <<>> THEN <<>>
    ELSE IF Head(s) \in Whitespace
         THEN <<" ">> \o CollapseSpaces(LStrip(s))
         ELSE <<Head(s)>> \o CollapseSpaces(Tail(s))

\* re.sub(r"\s+([,.!?;:])", r"\1", text): a run of whitespace that a
\* punctuation mark follows is dropped
RECURSIVE NoSpaceBeforePunct(_)
NoSpaceBeforePunct(s) ==
    IF s = <<>> THEN <<>>
    ELSE IF Head(s) \in Whitespace
         THEN LET rest == LStrip(s)
                  run == SubSeq(s, 1, Len(s) - Len(rest))
              IN  IF rest # <<>> /\ Head(rest) \in Punctuation
                  THEN NoSpaceBeforePunct(rest)
                  ELSE run \o NoSpaceBeforePunct(rest)
         ELSE <<Head(s)>> \o NoSpaceBeforePunct(Tail(s))

\* re.sub(r"([,.!?;:])([^\s])", r"\1 \2", text): matches do not overlap, the
\* character after the mark is consumed with it
RECURSIVE SpaceAfterPunct(_)
SpaceAfterPunct(s) ==
    IF Len(s) < 2 THEN s
    ELSE IF s[1] \in Punctuation /\ s[2] \notin Whitespace
         THEN <<s[1], " ", s[2]>> \o SpaceAfterPunct(SubSeq(s, 3, Len(s)))
         ELSE <<s[1]>> \o SpaceAfterPunct(Tail(s))

\* position of the first "]" of s after position 1, 0 if there is none
FirstClose(s) ==
    LET closes == {i \in 2..Len(s) : s[i] = "]"}
    IN  IF closes = {} THEN 0
        ELSE CHOOSE i \in closes : \A j \in closes : i <= j

\* re.sub(r"\[[^\]]+\]", "", text): "[", one or more characters other than
\* "]", and "]" are removed; nothing is put in their place
RECURSIVE RemoveTags(_)
RemoveTags(s) ==
    IF s = <<>> THEN <<>>
    ELSE IF Head(s) = "[" /\ FirstClose(s) >= 3
         THEN RemoveTags(SubSeq(s, FirstClose(s) + 1, Len(s)))
         ELSE <<Head(s)>> \o RemoveTags(Tail(s))

\* TextPostprocessor._simple_cleanup
simple_cleanup(text) ==
    LET t1 == Strip(CollapseSpaces(text))
        t2 == NoSpaceBeforePunct(t1)
        t3 == SpaceAfterPunct(t2)
    IN  Strip(RemoveTags(t3))

\* the values the fields of PostprocessConfig can hold: they are read from
\* config.yaml as they are. "" stands for an empty or missing value
Modes == {"", "simple", "Simple", "llm", "other"}
LLMBackends == {"", "groq", "openai", "other"}
Keys == {"", " ", "k"}

\* str.lower() and str.strip() on these values
Lower(v) == IF v = "Simple" THEN "simple" ELSE v
StripKey(k) == IF k = " " THEN "" ELSE k

Configs ==
    [enabled : BOOLEAN, mode : Modes, llm_backend : LLMBackends,
     groq_key : Keys, openai_key : Keys, model_set : BOOLEAN]

\* PostprocessConfig as load_settings builds it from an empty file, with the
\* recognition keys passed through
DefaultConfig ==
    [enabled |-> TRUE, mode |-> "llm", llm_backend |-> "groq",
     groq_key |-> "k", openai_key |-> "", model_set |-> TRUE]

\* what the HTTP request of _llm_groq / _llm_openai can come to: a reply
\* whose content is a string (given here stripped), or one of the failures
LLMFailures ==
    {"timeout", "network", "http_401", "http_429", "http_400", "http_5xx",
     "bad_json", "bad_format", "not_str", "unexpected"}
LLMReplies == {<<>>, <<"b">>}
LLMOutcomes ==
    [kind : {"ok"}, content : LLMReplies]
        \cup [kind : LLMFailures, content : {<<>>}]

\* the exception class a failure leaves _llm_groq / _llm_openai with: each
\* handled failure is re-raised as RuntimeError, anything else as it is
Raised(kind) == IF kind = "unexpected" THEN "Exception" ELSE "RuntimeError"

\* _llm_groq and _llm_openai: without key or model they raise before any
\* request is sent
LLMCall(key, config, text, llm) ==
    IF StripKey(key) = "" \/ ~config.model_set
    THEN [raised |-> "RuntimeError", value |-> <<>>, requested |-> FALSE]
    ELSE IF llm.kind = "ok"
         THEN [raised |-> "none", value |-> llm.content, requested |-> TRUE]
         ELSE [raised |-> Raised(llm.kind), value |-> <<>>,
               requested |-> TRUE]

\* (self.config.llm_backend or "groq").lower()
SelectedBackend(config) ==
    Lower(IF config.llm_backend = "" THEN "groq" ELSE config.llm_backend)

\* _llm_cleanup: an unknown backend returns the text as it is
llm_cleanup(config, text, llm) ==
    IF SelectedBackend(config) = "groq"
    THEN LLMCall(config.groq_key, config, text, llm)
    ELSE IF SelectedBackend(config) = "openai"
         THEN LLMCall(config.openai_key, config, text, llm)
         ELSE [raised |-> "none", value |-> text, requested |-> FALSE]

IsSimpleMode_Never(mode) == FALSE

\* (self.config.mode or "simple").lower() == "simple"
IsSimpleMode(mode) ==
    Lower(IF mode = "" THEN "simple" ELSE mode) = "simple"

ProcessCatches_RuntimeErrorOnly == {"RuntimeError"}

\* the exception classes the handlers of process (lines 66 and 71) catch
ProcessCatches == {"RuntimeError", "Exception"}

\* before any call, and what a call of process or _simple_cleanup has come
\* to: op names the call, once is the result of the first of two cleanups
NoOut ==
    [op |-> "none", result |-> <<>>, raised |-> FALSE, requested |-> FALSE,
     llm_failed |-> FALSE, once |-> <<>>]

Returned(op, text) == [NoOut EXCEPT !.op = op, !.result = text]

\* TextPostprocessor.process
process(config, text, llm) ==
    IF ~config.enabled THEN Returned("process", simple_cleanup(text))
    ELSE IF IsSimpleMode(config.mode)
    THEN Returned("process", simple_cleanup(text))
    ELSE
      LET cleaned == simple_cleanup(text)
          backend == SelectedBackend(config)
      IN  IF backend = "groq" /\ StripKey(config.groq_key) = ""
          THEN Returned("process", cleaned)
          ELSE IF backend = "openai" /\ StripKey(config.openai_key) = ""
          THEN Returned("process", cleaned)
          ELSE
            LET c == llm_cleanup(config, cleaned, llm)
                out == [Returned("process", cleaned)
                           EXCEPT !.requested = c.requested,
                                  !.llm_failed = (c.raised # "none")]
            IN  IF c.raised = "none"
                THEN [out EXCEPT !.result =
                         IF c.value # <<>> THEN c.value ELSE cleaned]
                ELSE IF c.raised \in ProcessCatches
                     THEN out
                     ELSE [out EXCEPT !.raised = TRUE, !.result = <<>>]

(* --------------------------- recovery files --------------------------- *)

\* st_mtime of a recovery file: files are numbered in the order in which they
\* were written
Mtime(f) == f

\* the orders in which glob("*.wav") may list the files S
Listings(S) ==
    {q \in [1..Cardinality(S) -> S] :
        \A i \in DOMAIN q : \A j \in DOMAIN q : i # j => q[i] # q[j]}

\* list.sort(key=st_mtime) is stable: f goes after the files that are not
\* newer than it
RECURSIVE InsertByMtime(_, _)
InsertByMtime(f, sorted) ==
    IF sorted = <<>> THEN <<f>>
    ELSE IF Mtime(sorted[Len(sorted)]) <= Mtime(f)
         THEN Append(sorted, f)
         ELSE Append(InsertByMtime(f, SubSeq(sorted, 1, Len(sorted) - 1)),
                     sorted[Len(sorted)])

RECURSIVE SortByMtime(_)
SortByMtime(listing) ==
    IF listing = <<>> THEN <<>>
    ELSE InsertByMtime(listing[Len(listing)],
                       SortByMtime(SubSeq(listing, 1, Len(listing) - 1)))

get_recovery_files_Unsorted(listing) == listing

\* RecoveryManager.get_recovery_files
get_recovery_files(listing) == SortByMtime(listing)

\* the recovery directory at startup holds n files of a previous process
StartupFiles(n) ==
    /\ files = 1..n
    /\ \E listing \in Listings(1..n) :
          replay_files = get_recovery_files(listing)
    /\ next_buf = n + 1

(* ----------------------- recognizer cache: state ---------------------- *)

\* a RecognitionConfig object is named by its version: 0 is the one loaded
\* at startup, n the one built by the n-th accepted settings dialog
\* (SettingsDialog._build_new_settings builds new objects with replace, the
\* objects of the older versions are never written again)
ConfigVersions == 0..MaxUpdates

\* the dict objects: 0 is the one of App.__init__, n the one created by the
\* n-th accepted settings dialog
DictIds == 0..MaxUpdates

\* a recognizer object: its class and the configuration object it holds
NoHandle == [kind |-> None, ver |-> -1]

\* create_recognizer: the class is chosen by config.backend, Groq is the
\* fallback for a backend that is not known
create_recognizer(backend, ver) ==
    [kind |-> IF backend = "local" THEN "local"
              ELSE IF backend = "groq" THEN "groq"
              ELSE IF backend = "openai" THEN "openai"
              ELSE "groq",
     ver |-> ver]

\* {}: no key is present
EmptyDict == [b \in BackendSettings |-> NoHandle]

\* the cascade thread before _process_audio reaches the cascade. tries,
\* requests, first_resp, entry_done and ctor_failed are history: the attempts
\* of the cascade so far, the HTTP requests sent so far, the answer to the
\* switch_sleeps and round_sleeps count the calls of
\* time.sleep(BACKEND_SWITCH_DELAY_SEC) and time.sleep(RETRY_DELAY_SEC);
\* first request of the last transcribe, the last settings update that was
\* complete when the current _get_or_create_recognizer was entered, and the
\* backends whose last attempt ended in a failed construction
CascIdle ==
    [pc |-> "idle", ordered_backends |-> <<>>, attempt |-> 0, pos |-> 1,
     cache |-> 0, rec_cfg |-> 0, handle |-> NoHandle, tries |-> 0,
     requests |-> 0, first_resp |-> None, entry_done |-> 0,
     ctor_failed |-> {}, switch_sleeps |-> 0, round_sleeps |-> 0]

\* open_settings_dialog not running; done is history: the last update that
\* ran to its end
DlgIdle == [step |-> 0, new |-> [ver |-> 0, backend |-> "groq"], done |-> 0]

\* App.__init__, lines 77-81, with settings.recognition.backend = p
RegistryInit(p) ==
    /\ settings = [ver |-> 0, backend |-> p]
    /\ recognizer = create_recognizer(p, 0)
    /\ recognizers = 0
    /\ dicts = [d \in DictIds |->
                  IF d = 0 THEN [EmptyDict EXCEPT ![p] = create_recognizer(p, 0)]
                  ELSE EmptyDict]
    /\ casc = CascIdle
    /\ dlg = DlgIdle

(* --------------------------- speed_up_audio --------------------------- *)

\* an ndarray is known by its shape: ndim, len(samples) = shape[0] and, with
\* two axes, shape[1]. The recorder delivers (frames, channels), the recovery
\* file of a mono recording is read back as (frames,)
Flat(n) == [ndim |-> 1, rows |-> n, cols |-> 0]
Matrix(n, c) == [ndim |-> 2, rows |-> n, cols |-> c]

\* a samples attribute that is no ndarray: reading .ndim raises
NotArray == [ndim |-> 0, rows |-> 0, cols |-> 0]

\* no AudioData
NoAudio == [obj |-> None]

\* AudioData(samples, sample_rate, channels); obj tells the object the caller
\* handed over from one the function has built
AudioData(samples, sample_rate, channels, obj) ==
    [samples |-> samples, sample_rate |-> sample_rate, channels |-> channels,
     obj |-> obj]

\* the length of the slice a[:b] of an array of length a
Min(a, b) == IF a <= b THEN a ELSE b

\* lines 28, 107, 109 and 101: win_size = int(0.03 * sample_rate),
\* Ha = int(win_size * 0.5 * factor), Hs = int(win_size * 0.5) and
\* len(output) = int(len(samples) / factor) + win_size; f is factor in tenths
WinSize(sample_rate) == (3 * sample_rate) \div 100
AnalysisHop(win, f) == (win * f) \div 20
SynthesisHop(win) == win \div 2
OutputLen(n, win, f) == (n * 10) \div f + win

\* lines 111-123: the value of j when the loop is left
RECURSIVE OlaLoop(_, _, _, _, _, _, _)
OlaLoop(i, j, n, win, outlen, Ha, Hs) ==
    IF i + win < n /\ j + win < outlen
    THEN OlaLoop(i + Ha, j + Hs, n, win, outlen, Ha, Hs)
    ELSE j

\* line 137: channels=audio.channels
ReturnedChannels(audio) == audio.channels

\* speed_up_audio(audio, factor), f being factor in tenths. Lines 16-22 turn
\* (n, 1) into (n,) by flatten and (n, c) into (n,) by the mean over the
\* channels; lines 24-123 compute the length j of the result; line 130 trims
\* the output to output[:j]; any exception returns audio (lines 140-142)
speed_up_audio(audio, f) ==
    IF f <= 10
    THEN audio
    ELSE IF audio.samples = NotArray
    THEN audio
    ELSE LET n == audio.samples.rows
             win == WinSize(audio.sample_rate)
             outlen == OutputLen(n, win, f)
             j == OlaLoop(0, 0, n, win, outlen, AnalysisHop(win, f),
                          SynthesisHop(win))
         IN AudioData(Flat(Min(j, outlen)), audio.sample_rate,
                      ReturnedChannels(audio), "new")

\* the layout AudioData expects: (samples,) for mono or (samples, channels)
LayoutConsistent(audio) ==
    IF audio.samples.ndim = 1 THEN audio.channels = 1
    ELSE audio.samples.ndim = 2 /\ audio.samples.cols = audio.channels

\* the inputs: sample rates, numbers of frames, layouts and factors
SampleRates == {8000, 16000, 44100}
FrameCounts == {n \in 1..MaxFrames : n % FrameStep = 0}
Factors == {5, 10, 15, 20, 30}
Inputs ==
    {AudioData(Flat(n), sr, 1, "given") : n \in FrameCounts, sr \in SampleRates}
    \cup {AudioData(Matrix(n, c), sr, c, "given") :
              n \in FrameCounts, sr \in SampleRates, c \in {1, 2}}
    \cup {AudioData(NotArray, sr, 1, "given") : sr \in SampleRates}

ScalerIdle == sa_audio = NoAudio /\ sa_factor = 0 /\ sa_out = NoAudio

(* ---------------------------- initial state --------------------------- *)

Init ==
    /\ ScalerIdle
    /\ is_recording = FALSE
    /\ is_idea = FALSE
    /\ last_audio_data = NoBuf
    /\ processing_lock = 0
    /\ hk_pc = "idle"
    /\ rec = RecorderIdle
    /\ \E n \in 0..MaxPrior : StartupFiles(n)
    /\ replay_idx = 1
    /\ runs = [r \in Runs |-> NoRun]
    /\ latest_buf = NoBuf
    /\ latest_failed = FALSE
    /\ pp_text = <<>>
    /\ pp_config = DefaultConfig
    /\ pp_out = NoOut
    /\ RegistryInit("groq")

(* --------------------------- hotkey handlers -------------------------- *)

\* start_recording(is_idea) up to the call of the recorder (lines 272-280):
\* ignored while recording; else the flags are set and _last_audio_data is
\* cleared
StartRecordingBegin(idea) ==
    /\ hk_pc = "idle"
    /\ IF is_recording
       THEN UNCHANGED vars
       ELSE /\ is_recording' = TRUE
            /\ is_idea' = idea
            /\ last_audio_data' = NoBuf
            /\ latest_buf' = NoBuf
            /\ latest_failed' = FALSE
            /\ hk_pc' = "starting"
            /\ UNCHANGED <<processing_lock, rec, next_buf, files,
                           replay_files, replay_idx, runs>>
    /\ UNCHANGED <<pvars, gvars, avars>>

\* start_recording from the call of the recorder on (lines 306-311): the
\* recorder is asked to start and, its result being falsy, the flags are reset
StartRecordingFinish ==
    /\ hk_pc = "starting"
    /\ hk_pc' = "idle"
    /\ rec' = RecorderStart(rec)
    /\ IF RecorderStartResult(rec)
       THEN UNCHANGED <<is_recording, is_idea>>
       ELSE is_recording' = FALSE /\ is_idea' = FALSE
    /\ UNCHANGED <<last_audio_data, processing_lock, next_buf, files,
                   replay_files, replay_idx, runs, latest_buf, latest_failed>>
    /\ UNCHANGED <<pvars, gvars, avars>>

\* stop_recording
StopRecording ==
    /\ hk_pc = "idle"
    /\ IF ~is_recording
       THEN UNCHANGED vars
       ELSE /\ rec' = RecorderStop(rec)
            /\ UNCHANGED <<is_recording, is_idea, last_audio_data,
                           processing_lock, hk_pc, next_buf, files,
                           replay_files, replay_idx, runs, latest_buf,
                           latest_failed>>
    /\ UNCHANGED <<pvars, gvars, avars>>

\* convert_to_idea
ConvertToIdea ==
    /\ hk_pc = "idle"
    /\ IF is_recording
       THEN /\ is_idea' = TRUE
            /\ UNCHANGED <<is_recording, last_audio_data, processing_lock,
                           hk_pc, rec, next_buf, files, replay_files,
                           replay_idx, runs, latest_buf, latest_failed>>
       ELSE UNCHANGED vars
    /\ UNCHANGED <<pvars, gvars, avars>>

\* cancel_recording
CancelRecording ==
    /\ hk_pc = "idle"
    /\ IF is_recording
       THEN /\ is_recording' = FALSE
            /\ is_idea' = FALSE
            /\ rec' = RecorderCancel(rec)
            /\ UNCHANGED <<last_audio_data, processing_lock, hk_pc,
                           next_buf, files, replay_files, replay_idx, runs,
                           latest_buf, latest_failed>>
       ELSE UNCHANGED vars
    /\ UNCHANGED <<pvars, gvars, avars>>

(* --------------------------- recorder thread -------------------------- *)

\* the stream callback appends a block of input to frames
RecCapture ==
    /\ rec.alive /\ ~rec.stop_event /\ ~rec.cancel_event /\ ~rec.frames
    /\ rec' = [rec EXCEPT !.frames = TRUE]
    /\ UNCHANGED <<hk_pc, is_recording, is_idea, last_audio_data, processing_lock,
                   next_buf, files, replay_files, replay_idx, runs,
                   latest_buf, latest_failed>>
    /\ UNCHANGED <<pvars, gvars, avars>>

\* _record_loop: max_duration reached, the loop sets the stop event itself
RecMaxDuration ==
    /\ rec.alive /\ ~rec.stop_event
    /\ rec' = [rec EXCEPT !.stop_event = TRUE]
    /\ UNCHANGED <<hk_pc, is_recording, is_idea, last_audio_data, processing_lock,
                   next_buf, files, replay_files, replay_idx, runs,
                   latest_buf, latest_failed>>
    /\ UNCHANGED <<pvars, gvars, avars>>

\* _record_loop: sd.PortAudioError, the thread returns without a callback
RecDeviceError ==
    /\ rec.alive /\ ~rec.stop_event
    /\ rec' = [rec EXCEPT !.alive = FALSE, !.frames = FALSE]
    /\ UNCHANGED <<hk_pc, is_recording, is_idea, last_audio_data, processing_lock,
                   next_buf, files, replay_files, replay_idx, runs,
                   latest_buf, latest_failed>>
    /\ UNCHANGED <<pvars, gvars, avars>>

RecoveryPath_Always(saved, buf) == buf

\* recovery_path of on_finished (lines 297-301): the path save_audio returns,
\* None if save_audio raises
RecoveryPath(saved, buf) == IF saved THEN buf ELSE NoBuf

FlagsAfterFinished_Kept ==
    [is_recording |-> is_recording, is_idea |-> is_idea]

\* on_finished resets both flags first, before the buffer is saved and the
\* _process_audio thread is started
FlagsAfterFinished ==
    [is_recording |-> FALSE, is_idea |-> FALSE]

\* _record_loop after the stream is closed: cancelled or empty recordings
\* return; otherwise the callback on_finished runs on this thread: it reads
\* the idea flag, resets the flags, saves the recovery file (save_audio may
\* raise, then recovery_path is None) and starts the pipeline thread
final_is_idea_AfterReset == FlagsAfterFinished.is_idea

\* on_finished, line 284: "final_is_idea = self._is_idea", read before the
\* flags are reset
final_is_idea == is_idea

RecFinish(saved) ==
    /\ rec.alive /\ rec.stop_event
    /\ rec' = [rec EXCEPT !.alive = FALSE, !.frames = FALSE]
    /\ IF rec.cancel_event \/ ~rec.frames \/ rec.on_finished = None
       THEN /\ saved
            /\ UNCHANGED <<is_recording, is_idea, next_buf, files, runs>>
       ELSE /\ next_buf <= MaxBuf
            /\ is_recording' = FlagsAfterFinished.is_recording
            /\ is_idea' = FlagsAfterFinished.is_idea
            /\ next_buf' = next_buf + 1
            /\ files' = IF saved THEN files \cup {next_buf} ELSE files
            /\ StartThread("live", next_buf, final_is_idea,
                           RecoveryPath(saved, next_buf))
    /\ UNCHANGED <<hk_pc, last_audio_data, processing_lock, replay_files,
                   replay_idx, latest_buf, latest_failed>>
    /\ UNCHANGED <<pvars, gvars, avars>>

(* ------------------------------ Qt thread ----------------------------- *)

\* history: the buffer whose cascade exhaustion a retry request made now
\* follows: that of the last run to enter the critical section, if it ended
\* exhausted and no start_recording was accepted since; NoBuf if none
FreshFailure == IF latest_failed THEN latest_buf ELSE NoBuf

\* the buffer _retry_processing hands to the new thread
RetryAudio == last_audio_data

\* _retry_processing
RetryProcessing ==
    /\ IF last_audio_data # NoBuf
       THEN /\ FreeSlots # {}
            /\ runs' = [runs EXCEPT ![FreeSlot] =
                           [NewRun("retry", RetryAudio, FALSE, NoBuf)
                               EXCEPT !.retry_of = FreshFailure]]
            /\ UNCHANGED <<hk_pc, is_recording, is_idea, last_audio_data,
                           processing_lock, rec, next_buf, files, replay_files,
                           replay_idx, latest_buf, latest_failed>>
       ELSE \* no buffer: a warning is logged and state idle is notified
            UNCHANGED vars
    /\ UNCHANGED <<pvars, gvars, avars>>

(* ---------------------------- replay thread --------------------------- *)

ReplayBusy == \E r \in Runs : runs[r].kind = "replay"

\* process_recovery: the next file is loaded (load_audio returns None on a
\* corrupt file, which is skipped) and processed by a synchronous call of
\* _process_audio, so the loop goes on only when that call has returned
ReplayNext(loaded) ==
    /\ replay_idx <= Len(replay_files)
    /\ ~ReplayBusy
    /\ replay_idx' = replay_idx + 1
    /\ IF loaded
       THEN StartThread("replay", replay_files[replay_idx], FALSE,
                        replay_files[replay_idx])
       ELSE UNCHANGED runs
    /\ UNCHANGED <<hk_pc, is_recording, is_idea, last_audio_data, processing_lock,
                   rec, next_buf, files, replay_files, latest_buf,
                   latest_failed>>
    /\ UNCHANGED <<pvars, gvars, avars>>

\* run r is between acquire() and the release of the finally clause
InCriticalSection(r) == runs[r].pc \notin {"none", "wait", "done"}

(* ------------------------- _process_audio: cascade -------------------- *)

InAllBackends(b) == \E i \in 1..Len(all_backends) : all_backends[i] = b

\* ordered_backends without the "seen" filter: [primary] + all_backends
\* restricted to the known backends
Cascade(p) == SelectSeq(<<p>> \o all_backends, InAllBackends)

\* the "seen" filter: the first occurrence of every element is kept
RECURSIVE Dedupe(_)
Dedupe(s) ==
    IF s = <<>> THEN <<>>
    ELSE LET front == Dedupe(SubSeq(s, 1, Len(s) - 1))
             x == s[Len(s)]
         IN IF \E i \in 1..Len(front) : front[i] = x THEN front
            ELSE Append(front, x)

\* variant of OrderedBackends: the configured primary is not moved to the front
OrderedBackends_Canonical(p) == all_backends

\* ordered_backends of _process_audio for the primary backend p
OrderedBackends(p) == Dedupe(Cascade(p))

\* variant of LockFree: the processing lock is not waited for
LockFree_NoWait == TRUE

\* acquire(blocking=True) returns only when the lock is free
LockFree == processing_lock = 0

\* variant of LastAudioAtAcquire: line 374 missing, the old value stays
LastAudioAtAcquire_Unset(r) == last_audio_data

\* the value written to _last_audio_data on entry to the critical section
LastAudioAtAcquire(r) == runs[r].audio

\* variant of RoundsLeft: range(MAX_ATTEMPTS + 1)
RoundsLeft_OneMore(attempt) == attempt + 1 < MAX_ATTEMPTS + 1

\* "for attempt in range(MAX_ATTEMPTS)": another round follows round attempt
RoundsLeft(attempt) == attempt + 1 < MAX_ATTEMPTS

\* what the HTTP request of transcribe can come to: a 2xx response whose
\* JSON object has a text (empty or not), no response, a status that is not
\* 2xx, or a 2xx response whose body is not JSON, is a JSON object without
\* the field "text" or with a "text" that is no string, or is no JSON object
Responses ==
    {"text", "empty_text", "timeout", "network", "http_401", "http_429",
     "http_500", "bad_json", "no_text_field", "text_not_str", "not_object"}

\* payload.get("text", "") for the 2xx responses whose body is a JSON
\* object; None stands for a value that is no string
PayloadText(resp) ==
    CASE resp = "text" -> "ok"
      [] resp = "empty_text" -> ""
      [] resp = "no_text_field" -> ""
      [] resp = "text_not_str" -> None

\* the outcome of one call of recognizer.transcribe: a text, or an exception
Outcomes ==
    [ok : BOOLEAN, text : Texts \cup {None},
     raised : {"none", "RuntimeError", "AttributeError"}]

Failure(class) == [ok |-> FALSE, text |-> None, raised |-> class]

\* GroqWhisperRecognizer.transcribe and OpenAIWhisperRecognizer.transcribe
\* from the response on
transcribe(resp) ==
    IF resp \in {"timeout", "network", "http_401", "http_429", "http_500",
                 "bad_json"}
    THEN Failure("RuntimeError")
    ELSE IF resp = "not_object"
    THEN \* payload.get on a list, a string or a number
         Failure("AttributeError")
    ELSE IF PayloadText(resp) = None
    THEN Failure("RuntimeError")
    ELSE [ok |-> TRUE, text |-> PayloadText(resp), raised |-> "none"]

\* the responses on which transcribe raises
ErrorResponses == {resp \in Responses : ~transcribe(resp).ok}

TranscribeOutcomes == {transcribe(resp) : resp \in Responses}

CascadeCatches_RuntimeErrorOnly == {"RuntimeError"}

\* "except Exception" of line 413 catches every exception class transcribe
\* can raise
CascadeCatches == {"RuntimeError", "AttributeError"}

\* the loop counters, never read again once the cascade is left
LoopLocalsDead(rn) ==
    [rn EXCEPT !.attempt = 0, !.pos = 1, !.tries = 0, !.round_seq = <<>>,
               !.prim = None, !.ordered_backends = <<>>]

\* variant of AfterAttempt: the break of the backend loop is missing, so a
\* success is noticed only at the end of the round
AfterAttempt_NoBreak(rn, res) ==
    IF rn.pos < Len(rn.ordered_backends)
    THEN [rn EXCEPT !.pos = rn.pos + 1]
    ELSE IF rn.raw_text # None
         THEN [LoopLocalsDead(rn) EXCEPT !.pc = "regex", !.last_error = NoError]
         ELSE IF RoundsLeft(rn.attempt)
              THEN [rn EXCEPT !.attempt = rn.attempt + 1, !.pos = 1,
                              !.round_seq = <<>>]
              ELSE [rn EXCEPT !.pc = "exhausted"]

\* both loops of the cascade after the attempt at (attempt, pos) of run rn
\* has returned res: where the run goes next. last_error is never read by
\* the code; the model keeps it only while the run can still end exhausted
AfterAttempt(rn, res) ==
    IF res.ok
    THEN \* break out of the backend loop, then "if raw_text is not None: break"
         [LoopLocalsDead(rn) EXCEPT !.pc = "regex", !.last_error = NoError]
    ELSE IF rn.pos < Len(rn.ordered_backends)
         THEN [rn EXCEPT !.pos = rn.pos + 1]
         ELSE IF RoundsLeft(rn.attempt)
              THEN [rn EXCEPT !.attempt = rn.attempt + 1, !.pos = 1,
                              !.round_seq = <<>>]
              ELSE [rn EXCEPT !.pc = "exhausted"]

\* lines 371-393: the lock is taken, _last_audio_data and the processing
\* state are set, the backend order of this run is computed from
\* settings.recognition.backend. The settings dialog (open_settings_dialog,
\* line 210) may replace the settings at any moment, so the value p that
\* line 389 reads is any of BackendSettings
Acquire(r, p) ==
    /\ runs[r].pc = "wait"
    /\ LockFree
    /\ processing_lock' = r
    /\ last_audio_data' = LastAudioAtAcquire(r)
    /\ latest_buf' = runs[r].audio
    /\ latest_failed' = FALSE
    /\ runs' = [runs EXCEPT ![r] =
                  [@ EXCEPT !.pc = "cascade", !.state = "processing",
                            !.prim = p,
                            !.ordered_backends = OrderedBackends(p),
                            !.attempt = 0, !.pos = 1, !.retry_of = NoBuf]]
    /\ UNCHANGED <<hk_pc, is_recording, is_idea, rec, next_buf, files, replay_files,
                   replay_idx>>
    /\ UNCHANGED <<pvars, gvars, avars>>

\* lines 405-417: one pass of the backend loop body, i.e. one transcribe
\* attempt on the backend at position pos, with the loop control that follows
Attempt(r, res) ==
    /\ runs[r].pc = "cascade"
    /\ LET rn == runs[r]
           b == rn.ordered_backends[rn.pos]
           called == [rn EXCEPT !.tries = @ + 1, !.round_seq = Append(@, b)]
           noted == IF res.ok
                    THEN [called EXCEPT !.raw_text = res.text, !.used_backend = b]
                    ELSE [called EXCEPT !.last_error = ErrMsg(b)]
       IN IF ~res.ok /\ res.raised \notin CascadeCatches
          THEN \* not caught: the exception leaves _process_audio through
               \* finally
               runs' = [runs EXCEPT ![r] =
                           [noted EXCEPT !.pc = "release", !.exc = "escaped"]]
          ELSE runs' = [runs EXCEPT ![r] = AfterAttempt(noted, res)]
    /\ UNCHANGED <<hk_pc, is_recording, is_idea, last_audio_data,
                   processing_lock, rec, next_buf, files,
                   replay_files, replay_idx, latest_buf, latest_failed>>
    /\ UNCHANGED <<pvars, gvars, avars>>

\* the message of the cascade-exhausted branch
ExhaustedMessage(rn) == MSG_CONNECTION

ShowsRetry_Always(outcome) == TRUE

\* window.show_retry_button() is called in the cascade-exhausted branch
\* (line 430) and nowhere else in _process_audio
ShowsRetry(outcome) == outcome = "exhausted"

\* lines 426-433: no backend produced a text
ReportExhausted(r) ==
    /\ runs[r].pc = "exhausted"
    /\ latest_failed' = (latest_buf # NoBuf)
    /\ runs' = [runs EXCEPT ![r] =
                  [LoopLocalsDead(@) EXCEPT !.pc = "release", !.state = "error",
                            !.msg = ExhaustedMessage(runs[r]),
                            !.msg_timeout = KEEP_VISIBLE,
                            !.retry_shown = ShowsRetry("exhausted"),
                            !.outcome = "exhausted"]]
    /\ UNCHANGED <<hk_pc, is_recording, is_idea, last_audio_data,
                   processing_lock, rec, next_buf, files,
                   replay_files, replay_idx, latest_buf>>
    /\ UNCHANGED <<pvars, gvars, avars>>

(* ---------------------- _process_audio: after the cascade ------------- *)

\* the stages of lines 437-523 in program order: regex cleanup,
\* postprocessor.process, text_updated, clipboard.copy, history.add_item,
\* clipboard.paste, the idea branch, the transcript log, state ready and the
\* recovery cleanup
PostSteps_PasteBeforeCopy ==
    <<"regex", "llm", "display", "paste", "history", "copy", "idea",
      "translog", "ready", "cleanup">>

\* variant of PostSteps: line 519 is missing, state ready is never notified
PostSteps_NoReady ==
    <<"regex", "llm", "display", "copy", "history", "paste", "idea",
      "translog", "cleanup">>

PostSteps == <<"regex", "llm", "display", "copy", "history", "paste", "idea",
               "translog", "ready", "cleanup">>

StepIndex(s) == CHOOSE i \in 1..Len(PostSteps) : PostSteps[i] = s

IsPostStep(s) == \E i \in 1..Len(PostSteps) : PostSteps[i] = s

\* the stage after s; the finally clause follows the last one
StepAfter(s) ==
    IF StepIndex(s) < Len(PostSteps) THEN PostSteps[StepIndex(s) + 1] ELSE "release"

\* variant of Handler: no try/except around the stages (lines 437/525 missing)
Handler_NoOuter(s) ==
    CASE s \in {"llm", "translog"} -> "inner"
      [] s \in {"copy", "paste", "cleanup"} -> "callee"
      [] OTHER -> "none"

\* who catches an exception raised in stage s:
\*   "inner"  - a try/except of _process_audio around that stage alone
\*              (postprocessor.process, lines 443-450; transcript log, 470-517)
\*   "callee" - the called component catches its own failure and returns
\*              (ClipboardManager.copy/paste, RecoveryManager.cleanup)
\*   "outer"  - the try/except of lines 437/525 around all stages
Handler(s) ==
    CASE s \in {"llm", "translog"} -> "inner"
      [] s \in {"copy", "paste", "cleanup"} -> "callee"
      [] OTHER -> "outer"

\* stages in which this run executes a call that can fail: state ready is a
\* plain signal emission, the idea branch is skipped unless is_idea, the
\* recovery cleanup is skipped without a recovery_path
CanFail(rn, s) ==
    CASE s = "ready" -> FALSE
      [] s = "idea" -> rn.is_idea
      [] s = "cleanup" -> rn.recovery_path # NoBuf
      [] OTHER -> TRUE

\* variant of Cleanup: the file is never unlinked
Cleanup_Keep(fs, path, ok) == fs

\* RecoveryManager.cleanup(path) on the set of files on disk: the file is
\* unlinked, or the unlink fails and the error is logged and swallowed
Cleanup(fs, path, ok) == IF ok THEN fs \ {path} ELSE fs

\* raw_text and used_backend only decide the contents of what the stages
\* display, copy and log, which the model does not follow: they are dropped
\* once the first stage is done
TextLocalsDead(rn) == [rn EXCEPT !.raw_text = None, !.used_backend = None]

\* processed_text after line 444: what process has returned, or regex_text
\* (the value of line 442) if process has raised. The model follows which of
\* the two texts it is, not its characters
ProcessedText(ok) == IF ok THEN "process_result" ELSE "regex_text"

\* the argument of clipboard.copy (line 456)
CopyArgument(rn) == rn.processed_text

\* processed_text and what was copied are followed up to history.add_item
\* and dropped then, or when the stages are left by an exception
StageTextsDead(rn) == [rn EXCEPT !.processed_text = None, !.copied = None]

\* one stage of run r; ok = FALSE: the stage raises
PostStep(r, ok) ==
    /\ IsPostStep(runs[r].pc)
    /\ ok \/ CanFail(runs[r], runs[r].pc)
    /\ LET rn == runs[r]
           s == rn.pc
           caught == Handler(s)
       IN IF ~ok /\ caught = "outer"
          THEN /\ runs' = [runs EXCEPT ![r] =
                             [StageTextsDead(rn) EXCEPT !.pc = "except",
                                                        !.exc = "outer"]]
               /\ UNCHANGED files
          ELSE IF ~ok /\ caught \notin {"inner", "callee"}
          THEN \* no handler: the exception leaves _process_audio through finally
               /\ runs' = [runs EXCEPT ![r] =
                             [StageTextsDead(rn) EXCEPT !.pc = "release",
                                                        !.exc = "escaped"]]
               /\ UNCHANGED files
          ELSE /\ runs' = [runs EXCEPT ![r] =
                             [TextLocalsDead(rn) EXCEPT !.pc = StepAfter(s),
                                        !.processed_text =
                                            IF s = "llm" THEN ProcessedText(ok)
                                            ELSE IF s = "history" THEN None
                                            ELSE @,
                                        !.copied =
                                            IF s = "copy" THEN CopyArgument(rn)
                                            ELSE IF s = "history" THEN None
                                            ELSE @,
                                        !.exc = IF ok THEN @ ELSE "swallowed",
                                        !.state = IF s = "ready" THEN "ready" ELSE @,
                                        !.outcome = IF s = "ready" THEN "ready" ELSE @,
                                        !.cleanup = IF s = "cleanup" /\ rn.recovery_path # NoBuf
                                                    THEN (IF ok THEN "deleted" ELSE "io_error")
                                                    ELSE @]]
               /\ files' = IF s = "cleanup" /\ rn.recovery_path # NoBuf
                           THEN Cleanup(files, rn.recovery_path, ok)
                           ELSE files
    /\ UNCHANGED <<hk_pc, is_recording, is_idea, last_audio_data,
                   processing_lock, rec, next_buf,
                   replay_files, replay_idx, latest_buf, latest_failed>>
    /\ UNCHANGED <<pvars, gvars, avars>>

\* lines 525-528: the outer handler
HandleUnexpected(r) ==
    /\ runs[r].pc = "except"
    /\ runs' = [runs EXCEPT ![r] =
                  [@ EXCEPT !.pc = "release", !.state = "error",
                            !.msg = MSG_POSTPROCESS,
                            !.msg_timeout = POSTPROCESS_TIMEOUT_MS,
                            !.retry_shown = ShowsRetry("post_error"),
                            !.outcome = "post_error"]]
    /\ UNCHANGED <<hk_pc, is_recording, is_idea, last_audio_data,
                   processing_lock, rec, next_buf, files,
                   replay_files, replay_idx, latest_buf, latest_failed>>
    /\ UNCHANGED <<pvars, gvars, avars>>

\* variants of ReleaseLock: no release at all; no release on the early
\* return of the cascade-exhausted branch
ReleaseLock_Never(r) == r

ReleaseLock_NotOnReturn(r) == IF runs[r].outcome = "exhausted" THEN r ELSE 0

\* the lock after the finally clause of run r
ReleaseLock(r) == 0

\* lines 529-530: finally, and the return of the call; its arguments and
\* locals are gone, what it has notified stays
Release(r) ==
    /\ runs[r].pc = "release"
    /\ processing_lock' = ReleaseLock(r)
    /\ runs' = [runs EXCEPT ![r] =
                  [NoRun EXCEPT !.pc = "done",
                                !.state = runs[r].state, !.msg = runs[r].msg,
                                !.msg_timeout = runs[r].msg_timeout,
                                !.retry_shown = runs[r].retry_shown,
                                !.outcome = runs[r].outcome,
                                !.exc = IF runs[r].exc = "escaped" THEN "escaped" ELSE "none"]]
    /\ UNCHANGED <<hk_pc, is_recording, is_idea, last_audio_data, rec, next_buf,
                   files, replay_files, replay_idx, latest_buf, latest_failed>>
    /\ UNCHANGED <<pvars, gvars, avars>>

\* the thread of run r has ended and is forgotten
ThreadExit(r) ==
    /\ runs[r].pc = "done"
    /\ runs' = [runs EXCEPT ![r] = NoRun]
    /\ UNCHANGED <<hk_pc, is_recording, is_idea, last_audio_data, processing_lock,
                   rec, next_buf, files, replay_files, replay_idx, latest_buf,
                   latest_failed>>
    /\ UNCHANGED <<pvars, gvars, avars>>

\* one step of the thread that executes _process_audio for run r
ProcessAudio(r) ==
    \/ \E p \in BackendSettings : Acquire(r, p)
    \/ \E res \in TranscribeOutcomes : Attempt(r, res)
    \/ ReportExhausted(r)
    \/ \E ok \in BOOLEAN : PostStep(r, ok)
    \/ HandleUnexpected(r)
    \/ Release(r)

(* ------------------------ postprocessor calls ------------------------- *)

\* a call of _simple_cleanup on the text
SimpleCleanup ==
    /\ pp_out.op = "none"
    /\ pp_out' = Returned("cleanup", simple_cleanup(pp_text))
    /\ UNCHANGED <<pp_text, pp_config, cvars, gvars, avars>>

\* a call of _simple_cleanup on what the first call returned
SimpleCleanupAgain ==
    /\ pp_out.op = "cleanup"
    /\ pp_out' = [Returned("cleanup2", simple_cleanup(pp_out.result))
                     EXCEPT !.once = pp_out.result]
    /\ UNCHANGED <<pp_text, pp_config, cvars, gvars, avars>>

\* a call of process on the text; llm is what the LLM request comes to, if
\* one is made
Process(llm) ==
    /\ pp_out.op = "none"
    /\ pp_out' = process(pp_config, pp_text, llm)
    /\ UNCHANGED <<pp_text, pp_config, cvars, gvars, avars>>

(* ----------------------------- specification -------------------------- *)

Next ==
    \/ \E idea \in BOOLEAN : StartRecordingBegin(idea)
    \/ StartRecordingFinish
    \/ StopRecording
    \/ ConvertToIdea
    \/ CancelRecording
    \/ RecCapture
    \/ RecMaxDuration
    \/ RecDeviceError
    \/ \E saved \in BOOLEAN : RecFinish(saved)
    \/ RetryProcessing
    \/ \E loaded \in BOOLEAN : ReplayNext(loaded)
    \/ \E r \in Runs : ProcessAudio(r)
    \/ \E r \in Runs : ThreadExit(r)

Spec == Init /\ [][Next]_vars

(* ------------ recognizer cache: the cascade and the settings ---------- *)

\* the answers to its first request on which GroqWhisperRecognizer.transcribe
\* sleeps one second and sends the request again
RetriedResponses == {"timeout", "network"}

MaxRequests_Single(kind) == 1

\* "for attempt in (1, 2)" of GroqWhisperRecognizer.transcribe, the single
\* requests.post of OpenAIWhisperRecognizer.transcribe
MaxRequests(kind) == IF kind = "groq" THEN 2 ELSE 1

\* the requests one call of transcribe sends when the server answers the
\* first one with resps[1] and the second, if there is one, with resps[2]
RequestsMade(kind, resps) ==
    IF MaxRequests(kind) > 1 /\ resps[1] \in RetriedResponses THEN 2 ELSE 1

\* the answers of the server the cascade is run with: a text, the two
\* failures of the request itself, and a status that is not 2xx
Answers == {"text", "timeout", "network", "http_500"}

\* the answers to the requests of one call of transcribe; the second one is
\* looked at only when a second request is sent
AnswerPairs(kind) ==
    {resps \in Answers \X Answers :
        RequestsMade(kind, resps) = 1 => resps[2] = resps[1]}

\* the answer transcribe goes on with
LastResponse(kind, resps) == resps[RequestsMade(kind, resps)]

\* a constructor returns the object or raises (GigaAMRecognizer.__init__
\* raises RuntimeError when the model cannot be loaded; the model lets the
\* construction of every class fail, as any call can at run time)
ConstructionResults == {"built", "raised"}

CacheAfterFailedCreate_Inserted(dict, backend) ==
    [dict EXCEPT ![backend] = create_recognizer(backend, 0)]

\* line 356 is not reached when line 355 raises
CacheAfterFailedCreate(dict, backend) == dict

\* the backend the cascade is at
CascBackend == casc.ordered_backends[casc.pos]

\* the locals of _get_or_create_recognizer and the recognizer of the loop
\* body, never read again once the attempt is over
CallLocalsDead(c) ==
    [c EXCEPT !.cache = 0, !.rec_cfg = 0, !.handle = NoHandle,
              !.entry_done = 0]

RetryDelayDue_Always(attempt) == TRUE

\* lines 422-424: "if attempt < MAX_ATTEMPTS - 1: time.sleep(RETRY_DELAY_SEC)"
\* at the end of a round without a text
RetryDelayDue(attempt) == attempt < MAX_ATTEMPTS - 1

\* lines 413-417 and the loop control: the attempt has failed, the inter-backend
\* delay is slept (line 416), the cascade
\* goes to the next backend, to the next round or to its end
AfterFailedAttempt(c) ==
    LET counted == CallLocalsDead([c EXCEPT !.tries = @ + 1,
                                            !.switch_sleeps = @ + 1])
        rested == IF RetryDelayDue(c.attempt)
                  THEN [counted EXCEPT !.round_sleeps = @ + 1]
                  ELSE counted
    IN IF c.pos < Len(c.ordered_backends)
       THEN [counted EXCEPT !.pc = "call", !.pos = c.pos + 1]
       ELSE IF RoundsLeft(c.attempt)
            THEN [rested EXCEPT !.pc = "call", !.attempt = c.attempt + 1,
                                !.pos = 1]
            ELSE [rested EXCEPT !.pc = "exhausted"]

\* lines 389-393: the cascade of a run is entered
CascadeStart ==
    /\ casc.pc = "idle"
    /\ casc' = [CascIdle EXCEPT
                  !.pc = "call",
                  !.ordered_backends = OrderedBackends(settings.backend)]
    /\ UNCHANGED <<settings, recognizers, recognizer, dicts, dlg, cvars, pvars, avars>>

\* line 343: cache = getattr(self, "_recognizers", None). The attribute is
\* set by App.__init__, so the branch of line 344 is never taken
GetCache ==
    /\ casc.pc = "call"
    /\ casc' = [casc EXCEPT !.pc = "lookup", !.cache = recognizers,
                            !.entry_done = dlg.done, !.first_resp = None]
    /\ UNCHANGED <<settings, recognizers, recognizer, dicts, dlg, cvars, pvars, avars>>

\* lines 350-351: "if backend in cache: return cache[backend]"
Lookup ==
    /\ casc.pc = "lookup"
    /\ IF dicts[casc.cache][CascBackend] # NoHandle
       THEN casc' = [casc EXCEPT !.pc = "transcribe",
                                 !.handle = dicts[casc.cache][CascBackend],
                                 !.ctor_failed = @ \ {CascBackend}]
       ELSE casc' = [casc EXCEPT !.pc = "read_cfg"]
    /\ UNCHANGED <<settings, recognizers, recognizer, dicts, dlg, cvars, pvars, avars>>

\* line 353: rec_cfg = self.settings.recognition
ReadConfig ==
    /\ casc.pc = "read_cfg"
    /\ casc' = [casc EXCEPT !.pc = "create", !.rec_cfg = settings.ver]
    /\ UNCHANGED <<settings, recognizers, recognizer, dicts, dlg, cvars, pvars, avars>>

\* lines 354-355: recognizer = create_recognizer(tmp_cfg); an exception
\* leaves _get_or_create_recognizer and is caught at line 413
Create(result) ==
    /\ casc.pc = "create"
    /\ IF result = "built"
       THEN /\ casc' = [casc EXCEPT
                          !.pc = "insert",
                          !.handle = create_recognizer(CascBackend, casc.rec_cfg),
                          !.ctor_failed = @ \ {CascBackend}]
            /\ UNCHANGED dicts
       ELSE /\ casc' = [AfterFailedAttempt(casc) EXCEPT
                          !.ctor_failed = @ \cup {CascBackend}]
            /\ dicts' = [dicts EXCEPT ![casc.cache] =
                           CacheAfterFailedCreate(@, CascBackend)]
    /\ UNCHANGED <<settings, recognizers, recognizer, dlg, cvars, pvars, avars>>

\* lines 356-357: cache[backend] = recognizer; return recognizer
Insert ==
    /\ casc.pc = "insert"
    /\ dicts' = [dicts EXCEPT ![casc.cache][CascBackend] = casc.handle]
    /\ casc' = [casc EXCEPT !.pc = "transcribe"]
    /\ UNCHANGED <<settings, recognizers, recognizer, dlg, cvars, pvars, avars>>

\* line 409: recognizer.transcribe(audio_data) with the answers resps of the
\* server, then lines 410-417 and the loop control
Transcribe(resps) ==
    /\ casc.pc = "transcribe"
    /\ resps \in AnswerPairs(casc.handle.kind)
    /\ LET kind == casc.handle.kind
           res == transcribe(LastResponse(kind, resps))
           sent == [casc EXCEPT !.requests = @ + RequestsMade(kind, resps),
                                !.first_resp = resps[1]]
       IN casc' = IF res.ok
                  THEN CallLocalsDead([sent EXCEPT !.pc = "done",
                                                   !.tries = @ + 1])
                  ELSE AfterFailedAttempt(sent)
    /\ UNCHANGED <<settings, recognizers, recognizer, dicts, dlg, cvars, pvars, avars>>

\* the run is over, the thread is free for the next one
CascadeEnd ==
    /\ casc.pc \in {"done", "exhausted"}
    /\ casc' = CascIdle
    /\ UNCHANGED <<settings, recognizers, recognizer, dicts, dlg, cvars, pvars, avars>>

UpdateSteps_ResetFirst == <<"reset", "settings", "create", "insert">>

\* open_settings_dialog from line 210 on, in program order: self.settings
\* (210), self._recognizers = {} (217), self.recognizer = create_recognizer
\* (218), self._recognizers[primary_backend] = self.recognizer (220)
UpdateSteps == <<"settings", "reset", "create", "insert">>

\* lines 201-207: the dialog is accepted with backend p chosen; get_result
\* returns a new settings object
DialogAccept(p) ==
    /\ dlg.step = 0
    /\ dlg.new.ver < MaxUpdates
    /\ dlg' = [dlg EXCEPT !.step = 1,
                          !.new = [ver |-> dlg.new.ver + 1, backend |-> p]]
    /\ UNCHANGED <<settings, recognizers, recognizer, dicts, casc, cvars, pvars, avars>>

\* one of the four statements; an exception of create_recognizer leaves
\* open_settings_dialog
DialogStep(result) ==
    /\ dlg.step > 0
    /\ LET stmt == UpdateSteps[dlg.step]
           next == IF dlg.step < Len(UpdateSteps)
                   THEN [dlg EXCEPT !.step = @ + 1]
                   ELSE [dlg EXCEPT !.step = 0, !.done = dlg.new.ver]
       IN CASE stmt = "settings" ->
                 /\ settings' = dlg.new
                 /\ dlg' = next
                 /\ UNCHANGED <<recognizers, recognizer, dicts>>
            [] stmt = "reset" ->
                 /\ recognizers' = dlg.new.ver
                 /\ dicts' = [dicts EXCEPT ![dlg.new.ver] = EmptyDict]
                 /\ dlg' = next
                 /\ UNCHANGED <<settings, recognizer>>
            [] stmt = "create" ->
                 IF result = "built"
                 THEN /\ recognizer' = create_recognizer(settings.backend,
                                                         settings.ver)
                      /\ dlg' = next
                      /\ UNCHANGED <<settings, recognizers, dicts>>
                 ELSE /\ dlg' = [dlg EXCEPT !.step = 0]
                      /\ UNCHANGED <<settings, recognizers, recognizer, dicts>>
            [] stmt = "insert" ->
                 /\ dicts' = [dicts EXCEPT ![recognizers][settings.backend] =
                                recognizer]
                 /\ dlg' = next
                 /\ UNCHANGED <<settings, recognizers, recognizer>>
    /\ UNCHANGED <<casc, cvars, pvars, avars>>

\* the recognizer cache on its own: one thread runs cascades, the UI thread
\* accepts the settings dialog up to MaxUpdates times
RecognizerInit ==
    /\ ScalerIdle
    /\ is_recording = FALSE /\ is_idea = FALSE /\ last_audio_data = NoBuf
    /\ processing_lock = 0 /\ hk_pc = "idle" /\ rec = RecorderIdle
    /\ files = {} /\ replay_files = <<>> /\ next_buf = 1 /\ replay_idx = 1
    /\ runs = [r \in Runs |-> NoRun]
    /\ latest_buf = NoBuf /\ latest_failed = FALSE
    /\ pp_text = <<>> /\ pp_config = DefaultConfig /\ pp_out = NoOut
    /\ \E p \in BackendSettings : RegistryInit(p)

RecognizerNext ==
    \/ CascadeStart
    \/ GetCache
    \/ Lookup
    \/ ReadConfig
    \/ \E result \in ConstructionResults : Create(result)
    \/ Insert
    \/ \E resps \in Answers \X Answers : Transcribe(resps)
    \/ CascadeEnd
    \/ \E p \in BackendSettings : DialogAccept(p)
    \/ \E result \in ConstructionResults : DialogStep(result)

RecognizerSpec == RecognizerInit /\ [][RecognizerNext]_vars

\* the startup replay on its own: up to MaxReplay files are found, nothing
\* is recorded and no retry is asked for
ReplayInit ==
    /\ ScalerIdle
    /\ is_recording = FALSE /\ is_idea = FALSE /\ last_audio_data = NoBuf
    /\ processing_lock = 0 /\ hk_pc = "idle" /\ rec = RecorderIdle
    /\ \E n \in 0..MaxReplay : StartupFiles(n)
    /\ replay_idx = 1
    /\ runs = [r \in Runs |-> NoRun]
    /\ latest_buf = NoBuf /\ latest_failed = FALSE
    /\ pp_text = <<>> /\ pp_config = DefaultConfig /\ pp_out = NoOut
    /\ RegistryInit("groq")

ReplayStep ==
    \/ \E loaded \in BOOLEAN : ReplayNext(loaded)
    \/ \E r \in Runs : ProcessAudio(r)
    \/ \E r \in Runs : ThreadExit(r)

ReplaySpec == ReplayInit /\ [][ReplayStep]_vars

\* a state Spec reaches: the run of recorded buffer 1, whose recovery file
\* was saved, has ended in cascade exhaustion and its thread is over; nothing
\* was recorded since
AfterExhaustedRun ==
    /\ is_recording = FALSE /\ is_idea = FALSE /\ last_audio_data = 1
    /\ processing_lock = 0 /\ hk_pc = "idle"
    /\ rec = [RecorderIdle EXCEPT !.stop_event = TRUE, !.on_finished = "own"]
    /\ files = {1} /\ replay_files = <<>> /\ next_buf = 2 /\ replay_idx = 1
    /\ runs = [r \in Runs |-> NoRun]
    /\ latest_buf = 1 /\ latest_failed = TRUE

\* the retries of a failed recording on their own: from AfterExhaustedRun on
\* the user only asks for retries
RetryInit ==
    /\ ScalerIdle
    /\ AfterExhaustedRun
    /\ pp_text = <<>> /\ pp_config = DefaultConfig /\ pp_out = NoOut
    /\ RegistryInit("groq")

RetryStep ==
    \/ RetryProcessing
    \/ \E r \in Runs : ProcessAudio(r)
    \/ \E r \in Runs : ThreadExit(r)

RetrySpec == RetryInit /\ [][RetryStep]_vars

\* a state the program reaches: recordings 1 and 2 were finalized in this
\* order, both recovery files were saved, on_finished started one thread for
\* each and neither thread has acquired the processing lock yet
TwoRecordingsWaiting ==
    /\ is_recording = FALSE /\ is_idea = FALSE /\ last_audio_data = NoBuf
    /\ processing_lock = 0 /\ hk_pc = "idle"
    /\ rec = [RecorderIdle EXCEPT !.stop_event = TRUE, !.on_finished = "own"]
    /\ files = {1, 2} /\ replay_files = <<>> /\ next_buf = 3 /\ replay_idx = 1
    /\ runs = [r \in Runs |-> IF r \in {1, 2} THEN NewRun("live", r, FALSE, r)
                                              ELSE NoRun]
    /\ latest_buf = NoBuf /\ latest_failed = FALSE

\* the threads of two finalized recordings on their own
QueueInit ==
    /\ ScalerIdle
    /\ TwoRecordingsWaiting
    /\ pp_text = <<>> /\ pp_config = DefaultConfig /\ pp_out = NoOut
    /\ RegistryInit("groq")

QueueStep ==
    \/ \E r \in Runs : ProcessAudio(r)
    \/ \E r \in Runs : ThreadExit(r)

QueueSpec == QueueInit /\ [][QueueStep]_vars

\* speed_up_audio on its own: a buffer and a factor are chosen, the rest
\* stays in its initial state, and the function is called once
SpeedInit ==
    /\ is_recording = FALSE /\ is_idea = FALSE /\ last_audio_data = NoBuf
    /\ processing_lock = 0 /\ hk_pc = "idle" /\ rec = RecorderIdle
    /\ files = {} /\ replay_files = <<>> /\ next_buf = 1 /\ replay_idx = 1
    /\ runs = [r \in Runs |-> NoRun]
    /\ latest_buf = NoBuf /\ latest_failed = FALSE
    /\ pp_text = <<>> /\ pp_config = DefaultConfig /\ pp_out = NoOut
    /\ RegistryInit("groq")
    /\ sa_audio \in Inputs /\ sa_factor \in Factors /\ sa_out = NoAudio

SpeedUp ==
    /\ sa_out = NoAudio
    /\ sa_out' = speed_up_audio(sa_audio, sa_factor)
    /\ UNCHANGED <<sa_audio, sa_factor, cvars, pvars, gvars>>

SpeedSpec == SpeedInit /\ [][SpeedUp]_vars

\* the postprocessor on its own: a text and a configuration are chosen, the
\* coordinator stays in its initial state, and the text is cleaned once and
\* again, or processed
PostprocessInit ==
    /\ ScalerIdle
    /\ is_recording = FALSE /\ is_idea = FALSE /\ last_audio_data = NoBuf
    /\ processing_lock = 0 /\ hk_pc = "idle" /\ rec = RecorderIdle
    /\ files = {} /\ replay_files = <<>> /\ next_buf = 1 /\ replay_idx = 1
    /\ runs = [r \in Runs |-> NoRun]
    /\ latest_buf = NoBuf /\ latest_failed = FALSE
    /\ \/ /\ pp_text \in TextsUpTo(MaxLen) \cup SampleTexts
          /\ pp_config = DefaultConfig
       \/ /\ pp_text \in TextsUpTo(MaxProcLen) \cup SampleTexts
          /\ pp_config \in Configs
    /\ pp_out = NoOut
    /\ RegistryInit("groq")

PostprocessNext ==
    \/ SimpleCleanup
    \/ SimpleCleanupAgain
    \/ \E llm \in LLMOutcomes : Process(llm)

PostprocessSpec == PostprocessInit /\ [][PostprocessNext]_vars

\* every started _process_audio thread keeps being scheduled, and a thread
\* blocked in acquire() is not passed over for ever when the lock is
\* released again and again
FairSpec ==
    /\ Spec
    /\ \A r \in Runs : WF_vars(ProcessAudio(r))
    /\ \A r \in Runs : SF_vars(\E p \in BackendSettings : Acquire(r, p))

(* ------------------------------- properties --------------------------- *)

\* C1: whatever started them (live recording, retry, startup replay), at
\* most one invocation of _process_audio is inside the critical section
\* (cascade, stages, cleanup) at any time, and it is the holder of the lock;
\* so a run's copy, paste and log are over before another run's cascade begins
C1_MutualExclusion ==
    \A r \in Runs : \A q \in Runs :
        InCriticalSection(r) /\ InCriticalSection(q)
            => r = q /\ processing_lock = r

\* a run is between copy and paste while another invocation waits
C1_Witness ==
    \E r \in Runs : \E q \in Runs :
        runs[r].pc = "paste" /\ runs[q].pc = "wait"

\* C2: a cascade all of whose transcribe calls fail reaches the exhausted
\* branch after exactly MAX_ATTEMPTS * len(ordered_backends) calls: the
\* branch is never reached with another count, and while the cascade loops
\* the count is below that number
C2_ExactAttempts ==
    \A r \in Runs :
        LET total == MAX_ATTEMPTS * Len(runs[r].ordered_backends)
        IN /\ runs[r].pc = "exhausted"
                => runs[r].tries = total /\ runs[r].raw_text = None
           /\ runs[r].pc = "cascade"
                => /\ runs[r].tries < total
                   /\ runs[r].tries =
                        runs[r].attempt * Len(runs[r].ordered_backends)
                            + runs[r].pos - 1

\* a cascade has just made its last failing call
C2_Witness ==
    \E r \in Runs :
        /\ runs[r].pc = "exhausted"
        /\ runs[r].tries = MAX_ATTEMPTS * Len(all_backends)
        /\ runs[r].attempt = MAX_ATTEMPTS - 1

\* C3: the first successful transcribe ends the cascade: while the cascade
\* loops no text has been obtained, and the step that obtains a text leaves
\* both loops at once with that text and the backend at the current position
\* as the result, every earlier call (attempt * len + pos - 1 of them)
\* having failed
C3_FirstSuccessEnds ==
    /\ [](\A r \in Runs :
            /\ runs[r].pc \in {"cascade", "exhausted"}
                 => runs[r].raw_text = None /\ runs[r].used_backend = None
            /\ runs[r].pc = "regex"
                 => runs[r].raw_text \in Texts /\ InAllBackends(runs[r].used_backend))
    /\ [][\A r \in Runs :
            runs[r].pc = "cascade" /\ runs'[r].raw_text # None
                => /\ runs'[r].pc = "regex"
                   /\ runs'[r].used_backend = runs[r].ordered_backends[runs[r].pos]
                   /\ runs[r].round_seq = SubSeq(runs[r].ordered_backends, 1, runs[r].pos - 1)
                   /\ runs[r].tries + 1 =
                        runs[r].attempt * Len(runs[r].ordered_backends) + runs[r].pos]_vars

\* the second backend of the order has returned "ok"
C3_Witness ==
    \E r \in Runs :
        /\ runs[r].pc = "regex"
        /\ runs[r].raw_text = "ok"
        /\ runs[r].used_backend = all_backends[2]

\* the backend order the specification gives for a primary P of the known
\* backends: P, then the others in canonical order
ExpectedOrder(P) == <<P>> \o SelectSeq(all_backends, LAMBDA b : b # P)

\* C4: for every configured primary that is a known backend, the backends
\* called in a round are, in this order, the primary and then the other known
\* backends in canonical order, none of them twice
C4_PrimaryFirst ==
    \A r \in Runs :
        runs[r].pc \in {"cascade", "exhausted"} /\ InAllBackends(runs[r].prim)
            => /\ runs[r].ordered_backends = ExpectedOrder(runs[r].prim)
               /\ runs[r].round_seq =
                    SubSeq(ExpectedOrder(runs[r].prim), 1, Len(runs[r].round_seq))
               /\ \A i \in 1..Len(runs[r].round_seq) :
                    \A j \in 1..Len(runs[r].round_seq) :
                        runs[r].round_seq[i] = runs[r].round_seq[j] => i = j

\* a full round with the second known backend as primary has been made
C4_Witness ==
    \E r \in Runs :
        /\ runs[r].pc = "exhausted"
        /\ runs[r].prim = all_backends[2]
        /\ runs[r].round_seq = <<all_backends[2], all_backends[1]>>

\* C5: the message notified when the cascade is exhausted is the last
\* recorded backend error
C5_LastErrorReported ==
    \A r \in Runs :
        runs[r].pc = "release" /\ runs[r].outcome = "exhausted"
            => runs[r].msg = runs[r].last_error

\* C6 as stated: a run with a recovery file that is exhausted leaves the
\* file, one that reaches state ready has deleted it when it ends, and the
\* file is there as long as the state is not ready
C6_Original ==
    \A r \in Runs :
        runs[r].recovery_path # NoBuf /\ InCriticalSection(r)
            => /\ runs[r].state # "ready" => runs[r].recovery_path \in files
               /\ runs[r].pc = "release" /\ runs[r].outcome = "ready"
                    => runs[r].recovery_path \notin files

\* C6: a run with a recovery file keeps the file as long as its state is
\* not ready (so through cascade exhaustion and through a stage error); a
\* run that has reached ready has called cleanup when it ends, and the file
\* is gone exactly if the unlink did not fail
C6_DeletedUnlessUnlinkFails ==
    \A r \in Runs :
        runs[r].recovery_path # NoBuf /\ InCriticalSection(r)
            => /\ runs[r].state # "ready"
                    => runs[r].recovery_path \in files /\ runs[r].cleanup = "none"
               /\ runs[r].pc = "release" /\ runs[r].outcome = "ready"
                    => /\ runs[r].cleanup \in {"deleted", "io_error"}
                       /\ runs[r].cleanup = "deleted"
                            <=> runs[r].recovery_path \notin files

\* a successful run has deleted its recovery file
C6_Witness ==
    \E r \in Runs :
        /\ runs[r].pc = "release" /\ runs[r].outcome = "ready"
        /\ runs[r].cleanup = "deleted"
        /\ runs[r].recovery_path # NoBuf /\ runs[r].recovery_path \notin files

C8_BlocksThenRuns ==
    /\ [][\A r \in Runs :
            /\ runs[r].pc = "wait" /\ runs'[r].pc # "wait"
                  => /\ processing_lock = 0 /\ processing_lock' = r
                     /\ runs'[r].pc = "cascade"
                     /\ runs'[r].audio = runs[r].audio
            /\ runs[r].pc # "none" /\ runs'[r].pc = "none"
                  => runs[r].pc = "done"
            /\ runs[r].pc = "done"
                  => runs[r].state \in {"ready", "error"}]_vars
    /\ \A r \in Runs : []<>(runs[r].pc \in {"none", "done"})

\* an invocation waits while another run holds the lock
C8_Witness ==
    \E r \in Runs : \E q \in Runs :
        /\ runs[r].pc = "wait"
        /\ processing_lock = q /\ runs[q].pc = "cascade" /\ runs[q].tries > 0

\* C9: the lock is held by run r exactly while r is inside the critical
\* section; a run that has returned, whatever its outcome, does not hold it
C9_ReleasedAtEnd ==
    \A r \in Runs :
        /\ processing_lock = r <=> InCriticalSection(r)
        /\ runs[r].pc = "done"
              => /\ processing_lock # r
                 /\ runs[r].outcome \in {"ready", "exhausted", "post_error"}

\* one run has returned from the exhausted branch and another through the
\* exception handler, and the lock is free
C9_Witness ==
    \E r \in Runs : \E q \in Runs :
        /\ runs[r].pc = "done" /\ runs[r].outcome = "exhausted"
        /\ runs[q].pc = "done" /\ runs[q].outcome = "post_error"
        /\ processing_lock = 0

C11_WrittenOnlyAtAcquire ==
    \A r \in Runs :
        InCriticalSection(r) => last_audio_data = runs[r].audio

C15_FallbackOnLLMFailure ==
    pp_out.op = "process"
        => /\ ~pp_out.raised
           /\ pp_out.llm_failed => pp_out.result = simple_cleanup(pp_text)

\* process has sent its LLM request, the request has failed, and the text
\* returned is a cleaned, non-empty one
C15_Witness ==
    /\ pp_out.op = "process" /\ pp_out.requested /\ pp_out.llm_failed
    /\ pp_out.result # <<>> /\ pp_out.result # pp_text

\* C16: cleaning a text twice gives the same text as cleaning it once
C16_CleanupIdempotent ==
    pp_out.op = "cleanup2" => pp_out.result = pp_out.once

\* C17: _simple_cleanup turns the text NoisyText, whose artifact tag stands
\* between spaces, into TidyText, with single spaces only
C17_TagBetweenSpaces ==
    pp_out.op = "cleanup" /\ pp_text = NoisyText => pp_out.result = TidyText

\* the configurations in which C18 lets process send an LLM request, and
\* those in which process does send one unless a key or a model is missing
LLMConfigured(config) ==
    /\ config.enabled /\ config.mode = "llm"
    /\ \/ SelectedBackend(config) = "groq" /\ StripKey(config.groq_key) # ""
       \/ SelectedBackend(config) = "openai"
              /\ StripKey(config.openai_key) # ""

C19_ErrorsRecoverable ==
    [][\A r \in Runs : \A resp \in ErrorResponses :
          Attempt(r, transcribe(resp))
              => /\ runs'[r].exc # "escaped"
                 /\ runs'[r].raw_text = None
                 /\ processing_lock' = r
                 /\ IF runs[r].pos < Len(runs[r].ordered_backends)
                    THEN /\ runs'[r].pc = "cascade"
                         /\ runs'[r].pos = runs[r].pos + 1
                         /\ runs'[r].attempt = runs[r].attempt
                    ELSE IF runs[r].attempt + 1 < MAX_ATTEMPTS
                    THEN /\ runs'[r].pc = "cascade"
                         /\ runs'[r].pos = 1
                         /\ runs'[r].attempt = runs[r].attempt + 1
                    ELSE runs'[r].pc = "exhausted"]_vars

\* a run has gone on to a later round after errors of both backends
C19_Witness ==
    \E r \in Runs :
        /\ runs[r].pc = "cascade" /\ runs[r].attempt >= 1
        /\ runs[r].last_error # NoError /\ runs[r].raw_text = None

\* C20: a 2xx response whose JSON object has no field "text" makes transcribe
\* raise, so the cascade does not stop on it: no text is taken and the run
\* goes on with the next backend or round
C20_MissingTextIsError ==
    [][\A r \in Runs :
          Attempt(r, transcribe("no_text_field"))
              => /\ runs'[r].raw_text = None
                 /\ runs'[r].pc \in {"cascade", "exhausted"}]_vars

\* C27: when save_audio fails at the end of a recording, the buffer is
\* processed all the same: the step starts a pipeline run for it without a
\* recovery path and leaves the recovery directory as it is; and the
\* cleanup step of a run without a recovery path never calls the recovery
\* cleanup
C27_ProcessedWithoutRecoveryFile ==
    [][/\ RecFinish(FALSE) /\ rec.frames /\ ~rec.cancel_event
          => /\ files' = files
             /\ \E r \in Runs :
                   /\ runs[r].pc = "none" /\ runs'[r].pc = "wait"
                   /\ runs'[r].kind = "live" /\ runs'[r].audio = next_buf
                   /\ runs'[r].recovery_path = NoBuf
       /\ \A r \in Runs :
             (/\ runs[r].recovery_path = NoBuf /\ runs[r].pc = "cleanup"
              /\ runs'[r] # runs[r])
                 => /\ files' = files
                    /\ runs'[r].cleanup = "none"
                    /\ runs'[r].pc \in {"cleanup", "release"}]_vars

\* a run of a recorded buffer whose recovery file could not be saved has
\* gone through all stages and is about to release the lock
C27_Witness ==
    \E r \in Runs :
        /\ runs[r].kind = "live" /\ runs[r].recovery_path = NoBuf
        /\ runs[r].pc = "release" /\ runs[r].state = "ready"
        /\ runs[r].audio \notin files

\* C28: a run that ends in cascade exhaustion notifies state error, a message
\* that stays on screen (timeout 0) and shows the retry control; no run with
\* another outcome shows the retry control; and state error is notified only
\* by cascade exhaustion and by the handler of unexpected stage errors
C28_RetryOnlyOnExhaustion ==
    \A r \in Runs :
        /\ runs[r].outcome = "exhausted"
              => /\ runs[r].state = "error"
                 /\ runs[r].msg_timeout = KEEP_VISIBLE
                 /\ runs[r].retry_shown
        /\ runs[r].retry_shown => runs[r].outcome = "exhausted"
        /\ runs[r].state = "error"
              => runs[r].outcome \in {"exhausted", "post_error"}
        /\ runs[r].outcome = "post_error"
              => /\ runs[r].state = "error"
                 /\ runs[r].msg_timeout = POSTPROCESS_TIMEOUT_MS

\* one run has ended exhausted with the retry control shown, another has
\* ended with an unexpected stage error
C28_Witness ==
    \E r \in Runs : \E q \in Runs :
        /\ runs[r].pc = "done" /\ runs[r].outcome = "exhausted"
        /\ runs[r].retry_shown
        /\ runs[q].pc = "done" /\ runs[q].outcome = "post_error"
        /\ ~runs[q].retry_shown

\* C29: start_recording goes back to idle only if the recorder was busy and
\* started no capture; when AudioRecorder.start has started a capture
\* thread, is_recording stays true
C29_StaysRecordingAfterStart ==
    [][StartRecordingFinish
          => IF ~rec.alive /\ rec'.alive
             THEN is_recording' /\ is_idea' = is_idea
             ELSE ~is_recording' /\ ~is_idea']_vars

\* the place of each position of a run in the order of stages C25 states:
\* 1 cascade, 2 postprocessing, 3 clipboard copy, 4 paste, 5 transcript log,
\* 6 recovery cleanup; 0 before the cascade, 7 after the stages
StageRank(pc) ==
    CASE pc \in {"none", "wait"} -> 0
      [] pc \in {"cascade", "exhausted"} -> 1
      [] pc \in {"regex", "llm", "display"} -> 2
      [] pc \in {"copy", "history"} -> 3
      [] pc \in {"paste", "idea"} -> 4
      [] pc \in {"translog", "ready"} -> 5
      [] pc = "cleanup" -> 6
      [] OTHER -> 7

C22_LocalPrimaryAttempted ==
    \A r \in Runs :
        runs[r].pc = "cascade" /\ runs[r].prim = "local"
            => /\ Len(runs[r].ordered_backends) > 0
               /\ runs[r].ordered_backends[1] = "local"

\* C21 as stated: every call of transcribe sends at most one request to its
\* backend, so a step of the cascade adds at most one request
C21_Original ==
    [][casc'.requests <= casc.requests + 1]_vars

\* C21: a call of OpenAIWhisperRecognizer.transcribe sends one request; a
\* call of GroqWhisperRecognizer.transcribe sends one request, and a second
\* one exactly when the first ended in a timeout or a network error; nothing
\* else sends requests, so a run sends at most twice as many requests as the
\* cascade has made attempts
C21_OneRequestOrGroqRetry ==
    [][/\ casc.requests <= 2 * casc.tries
       /\ casc'.requests # casc.requests /\ casc'.pc # "idle"
             => /\ casc.pc = "transcribe"
                /\ casc'.tries = casc.tries + 1
                /\ casc'.requests - casc.requests =
                      IF casc.handle.kind = "groq"
                         /\ casc'.first_resp \in RetriedResponses
                      THEN 2 ELSE 1
       /\ casc.pc = "transcribe" /\ casc'.pc # "transcribe"
             => casc'.requests > casc.requests]_vars

\* the cascade has sent more requests than it has made attempts
C21_Witness ==
    /\ casc.requests > casc.tries
    /\ casc.tries > 0

\* C23: when create_recognizer raises inside _get_or_create_recognizer, the
\* cascade counts a failed attempt for that backend and goes on with the next
\* backend or round as after any failed attempt, no request is sent, no dict
\* is written (the failed construction leaves nothing in the cache), and at
\* the next attempt for that backend a lookup that finds nothing leads to
\* the construction again
C23_FailedConstructionIsFailedAttempt ==
    [][/\ casc.pc = "create" /\ casc' # casc /\ casc'.pc # "insert"
             => /\ dicts' = dicts
                /\ casc'.tries = casc.tries + 1
                /\ casc'.requests = casc.requests
                /\ CascBackend \in casc'.ctor_failed
                /\ IF casc.pos < Len(casc.ordered_backends)
                   THEN /\ casc'.pc = "call"
                        /\ casc'.pos = casc.pos + 1
                        /\ casc'.attempt = casc.attempt
                   ELSE IF casc.attempt + 1 < MAX_ATTEMPTS
                   THEN /\ casc'.pc = "call"
                        /\ casc'.pos = 1
                        /\ casc'.attempt = casc.attempt + 1
                   ELSE casc'.pc = "exhausted"
       /\ casc.pc = "lookup" /\ casc' # casc
          /\ CascBackend \in casc.ctor_failed
          /\ dicts[casc.cache][CascBackend] = NoHandle
             => casc'.pc = "read_cfg"
       /\ casc.pc = "read_cfg" /\ casc' # casc => casc'.pc = "create"]_vars

\* the construction is attempted again for a backend whose construction
\* failed at its previous attempt
C23_Witness ==
    /\ casc.pc = "create"
    /\ CascBackend \in casc.ctor_failed
    /\ casc.tries >= Len(casc.ordered_backends)

\* C24: whatever the interleaving of a settings update with a cascade, the
\* recognizer an attempt is calling transcribe on is an object of the
\* backend's class holding a configuration object, also when the cache it
\* came from has been replaced; the dict created by an update never holds a
\* recognizer built from a configuration older than that update; and a
\* _get_or_create_recognizer entered after an update has run to its end
\* returns a recognizer built from the configuration of that update or of a
\* later one
C24_CacheReplacedSafely ==
    /\ \A d \in DictIds : \A b \in BackendSettings :
          dicts[d][b] # NoHandle => dicts[d][b].ver >= d
    /\ casc.pc = "transcribe"
          => /\ casc.handle.kind = CascBackend
             /\ casc.handle.ver \in ConfigVersions
             /\ casc.handle.ver >= casc.entry_done
             /\ casc.handle.ver <= settings.ver

\* a transcribe is in flight on a recognizer of the old configuration, taken
\* from the old dict, while the update has run to its end and the new dict
\* holds a recognizer of the new configuration for the same backend
C24_Witness ==
    /\ casc.pc = "transcribe"
    /\ casc.handle.ver = 0 /\ casc.cache = 0
    /\ dlg.step = 0 /\ dlg.done = 1 /\ recognizers = 1
    /\ dicts[1][CascBackend].ver = 1

\* C31: when a buffer whose run ended in cascade exhaustion is processed
\* successfully by a run that _retry_processing started, its recovery file
\* is gone when that run has reached state ready and is about to release the
\* lock (in RetrySpec every run is a retry of the buffer whose first run
\* ended in cascade exhaustion)
C31_RetrySuccessDeletesFile ==
    \A r \in Runs :
        /\ runs[r].kind = "retry"
        /\ runs[r].pc = "release" /\ runs[r].state = "ready"
        => runs[r].audio \notin files


\* C32: a run leaves the wait for the processing lock only when no run of an
\* earlier finalized recording is still waiting for it (buffers are numbered
\* in the order in which on_finished received them)
C32_FifoEntry ==
    [][\A r \in Runs :
          (runs[r].pc = "wait" /\ runs'[r].pc # "wait")
          => \A q \in Runs :
                (runs[q].pc = "wait" /\ runs[q].kind = "live")
                => runs[q].audio >= runs[r].audio]_vars


\* C33: a run started for a finalized recording carries the value is_idea had
\* in the step that finalized it, a run started by _retry_processing or by the
\* startup replay carries FALSE, the tag of a run never changes while the run
\* is queued or processing, and convert_to_idea changes no run and, when
\* is_recording is false, nothing at all
C33_IdeaTagFixedAtFinalize ==
    [][/\ \A r \in Runs :
            /\ (runs[r].pc = "none" /\ runs'[r].pc = "wait")
               => runs'[r].is_idea =
                     IF runs'[r].kind = "live" THEN is_idea ELSE FALSE
            /\ (runs[r].pc \notin {"none", "done"}
                   /\ runs'[r].pc \notin {"none", "done"})
               => runs'[r].is_idea = runs[r].is_idea
       /\ ConvertToIdea
             => /\ runs' = runs
                /\ ~is_recording => UNCHANGED vars]_vars

\* a recording finalized while is_idea was true is being processed as an idea
C33_Witness ==
    \E r \in Runs :
        /\ runs[r].kind = "live" /\ runs[r].is_idea
        /\ runs[r].pc \notin {"none", "wait", "done"}
        /\ ~is_idea


\* C34: in one cascade every failed attempt is followed by exactly one
\* inter-backend sleep and nothing else sleeps that delay; the inter-round
\* sleep is taken exactly once at the end of each round that ended without a
\* text while rounds remain, and not after the last round nor in a step in
\* which a backend succeeded
C34_DelaysPerFailure ==
    [][casc.pc \notin {"idle", "done", "exhausted"} =>
          LET attempted == casc'.tries = casc.tries + 1
              succeeded == casc'.pc = "done"
              lastOfRound == casc.pos = Len(casc.ordered_backends)
          IN /\ casc'.switch_sleeps = casc.switch_sleeps +
                   (IF attempted /\ ~succeeded THEN 1 ELSE 0)
             /\ casc'.round_sleeps = casc.round_sleeps +
                   (IF attempted /\ ~succeeded /\ lastOfRound
                       /\ casc.attempt + 1 < MAX_ATTEMPTS
                    THEN 1 ELSE 0)
             /\ succeeded => casc'.switch_sleeps = casc'.tries - 1
             /\ casc'.pc = "exhausted"
                   => /\ casc'.switch_sleeps = casc'.tries
                      /\ casc'.round_sleeps = MAX_ATTEMPTS - 1]_vars

\* a cascade has ended exhausted after all its rounds: it has slept after
\* every attempt and between the rounds
C34_Witness ==
    /\ casc.pc = "exhausted"
    /\ casc.tries = MAX_ATTEMPTS * Len(casc.ordered_backends)
    /\ casc.switch_sleeps = casc.tries
    /\ casc.round_sleeps = MAX_ATTEMPTS - 1


\* C35: a run notifies state processing in the step in which it takes the
\* lock; while it holds the lock its notified state goes from processing to
\* ready or to error once and then stays what it is; and a run about to
\* release the lock has notified ready or error
C35_OneTerminalState ==
    [][\A r \in Runs :
          /\ (runs[r].pc = "wait" /\ runs'[r].pc # "wait")
             => /\ processing_lock' = r
                /\ runs'[r].state = "processing"
          /\ (runs[r].pc \notin {"none", "wait", "done"} /\ runs'[r] # runs[r])
             => /\ processing_lock = r
                /\ IF runs[r].state = "processing"
                   THEN runs'[r].state \in {"processing", "ready", "error"}
                   ELSE /\ runs[r].state \in {"ready", "error"}
                        /\ runs'[r].state = runs[r].state
                /\ runs[r].pc = "release"
                      => runs[r].state \in {"ready", "error"}]_vars

\* one run has ended with state ready, and the retry after it is about to
\* release the lock with state error
C35_Witness ==
    \E r, q \in Runs :
        /\ r # q
        /\ runs[r].pc = "release" /\ runs[r].state = "error"
        /\ processing_lock = r
        /\ runs[q].pc = "done" /\ runs[q].state = "ready"


C37_ScaledBufferWellFormed ==
    sa_out # NoAudio =>
        IF sa_factor <= 10 \/ sa_audio.samples = NotArray
        THEN sa_out = sa_audio
        ELSE /\ sa_out.obj = "new"
             /\ sa_out.sample_rate = sa_audio.sample_rate
             /\ sa_out.samples.rows * sa_factor <= sa_audio.samples.rows * 10
             /\ LayoutConsistent(sa_out)

=============================================================================
